---- MODULE Spec2Model ----
(***************************************************************************)
(* A model of src/vector.h: RawMemory<T> (a block of raw storage) and      *)
(* Vector<T> (a dynamic array that constructs and destroys elements in     *)
(* that block by hand).                                                    *)
(*                                                                         *)
(* The heap is a finite set of blocks.  A slot of a block either holds no  *)
(* object (NoObject) or holds an object with a value.  Every operation of  *)
(* Vector is one action; the steps inside it (placement new, destructor    *)
(* calls, std::uninitialized_copy_n, ...) are computed in order on a       *)
(* machine record that also counts constructions, destructions and         *)
(* assignments and logs every lifetime violation.                          *)
(***************************************************************************)
EXTENDS Integers, Sequences, FiniteSets, TLC

\* ------------------------------------------------------------------ bounds
MaxCap == 4        \* largest block the model allocates
MaxVal == 1        \* element payloads are 0..MaxVal
MaxBlocks == 3     \* block addresses 1..MaxBlocks
MaxOps == 9        \* length bound of the PushBack/PopBack histories
MaxHistCap == 8    \* largest block in the PushBack/PopBack histories
MaxPairCap == 2    \* largest block when two arrays are modelled
MaxLeak == 1       \* the counts of leaked blocks and objects stop here

\* --------------------------------------------------------- element values
NoObject == -1     \* raw memory: no object lives in the slot
MovedFrom == -2    \* a live object that has been moved from
Garbage == -3      \* what an assignment into a destroyed object may leave
ValueInit == 0     \* T(), a payload like the others
nullptr == 0
ValueThrows == -1  \* failure point: the constructor of the added value throws

Values == 0..MaxVal
Blocks == 1..MaxBlocks
VecNames == {"a", "b"}
Policies == {"move", "copy"}

VARIABLES
    vec,      \* vec[v]: the Vector object v: exists, data_ (buffer_, capacity_), size_
    heap,     \* heap[b]: block b: alloc, slots
    policy,   \* how T relocates: "move" (nothrow move) or "copy" (copy, may throw)
    last,     \* the operation that produced this state, with the state before it
    pp,       \* history of a run on a: pushes, pops, other insertions,
              \* reallocations, and the abstract sequence
    snap,     \* the source of the last copy-construction, as it was then
    limit,    \* the largest request the allocator of this run serves
    leak      \* blocks no RawMemory holds any more, and the objects in them

vars == <<vec, heap, policy, last, pp, snap, limit, leak>>

\* ------------------------------------------------------------------- heap
FreeBlock == [alloc |-> FALSE, slots |-> <<>>]

NoVector == [exists |-> FALSE, buffer_ |-> nullptr, capacity_ |-> 0, size_ |-> 0]

\* Vector() = default: RawMemory() = default, size_ = 0
EmptyVector == [exists |-> TRUE, buffer_ |-> nullptr, capacity_ |-> 0, size_ |-> 0]

\* The machine an operation runs on: the heap and what the operation did so far.
Machine(hp) ==
    [heap |-> hp, nctor |-> 0, ndtor |-> 0, nassign |-> 0, lost |-> 0,
     ub |-> {}, thrown |-> FALSE]

FreeIds(hp) == {b \in Blocks : ~hp[b].alloc}

\* operator new: the lowest free address
NewBlock(hp) == IF FreeIds(hp) = {} THEN nullptr
                ELSE CHOOSE b \in FreeIds(hp) : \A c \in FreeIds(hp) : b <= c

\* the allocator of this run can serve a request for n slots
CanAllocate(hp, n) == n = 0 \/ (n <= limit /\ FreeIds(hp) # {})

\* RawMemory::Allocate(n): n slots of raw memory, or nullptr for n = 0
AllocatedAddress(hp, n) == IF n # 0 THEN NewBlock(hp) ELSE nullptr

Allocate(m, n) ==
    IF n # 0
    THEN [m EXCEPT !.heap[NewBlock(m.heap)] =
                       [alloc |-> TRUE, slots |-> [i \in 1..n |-> NoObject]]]
    ELSE m

LiveSlots(blk) == {i \in 1..Len(blk.slots) : blk.slots[i] # NoObject}

\* RawMemory::Deallocate(buf): operator delete; objects still alive in the
\* block are lost (their destructors never run)
Deallocate(m, buf) ==
    IF buf = nullptr THEN m
    ELSE IF ~m.heap[buf].alloc THEN [m EXCEPT !.ub = @ \cup {"double_free"}]
    ELSE [m EXCEPT !.heap[buf] = FreeBlock,
                   !.lost = @ + Cardinality(LiveSlots(m.heap[buf]))]

\* RawMemory::~RawMemory()
RawMemoryDtor(m, buf, cap) == IF cap > 0 THEN Deallocate(m, buf) ELSE m

\* the object in slot i (0-based) of block b
Slot(m, b, i) == m.heap[b].slots[i + 1]

\* new (buf + i) T(x)
Construct(m, b, i, x) ==
    [m EXCEPT !.heap[b].slots[i + 1] = x,
              !.nctor = @ + 1,
              !.ub = IF Slot(m, b, i) # NoObject
                     THEN @ \cup {"construct_over_live"} ELSE @]

\* new (buf + i) T(args...) for the value an insertion adds, or T temp_el(args...)
\* when b is nullptr: with k = ValueThrows the constructor throws and no object
\* comes to exist
ConstructValue(m, b, i, x, k) ==
    IF k = ValueThrows THEN [m EXCEPT !.thrown = TRUE]
    ELSE IF b = nullptr THEN m
    ELSE Construct(m, b, i, x)

\* Vector::Destroy(buf + i): buf->~T()
Destroy(m, b, i) ==
    [m EXCEPT !.heap[b].slots[i + 1] = NoObject,
              !.ndtor = @ + 1,
              !.ub = IF Slot(m, b, i) = NoObject
                     THEN @ \cup {"destroy_dead"} ELSE @]

\* buf[i] = x.  Assigning to a slot whose object was destroyed is undefined:
\* `bad` is what the slot holds afterwards in that case.
Assign(m, b, i, x, bad) ==
    [m EXCEPT !.heap[b].slots[i + 1] = IF Slot(m, b, i) = NoObject THEN bad ELSE x,
              !.nassign = @ + 1,
              !.ub = IF Slot(m, b, i) = NoObject
                     THEN @ \cup {"assign_dead"} ELSE @]

\* the source of a move is left moved-from
MoveOut(m, b, i) == [m EXCEPT !.heap[b].slots[i + 1] = MovedFrom]

\* Vector::DestroyN / std::destroy_n(buf + off, n)
RECURSIVE DestroyN(_, _, _, _)
DestroyN(m, b, off, n) ==
    IF n = 0 THEN m ELSE DestroyN(Destroy(m, b, off), b, off + 1, n - 1)

\* std::uninitialized_copy_n(src + so, n, dst + do), the copy of the k-th
\* element throwing (k = 0: none does): the copies built so far are destroyed
RECURSIVE UninitCopyFrom(_, _, _, _, _, _, _, _)
UninitCopyFrom(m, sb, so, db, do, n, i, k) ==
    IF i = n THEN m
    ELSE IF k = i + 1 THEN [DestroyN(m, db, do, i) EXCEPT !.thrown = TRUE]
    ELSE UninitCopyFrom(Construct(m, db, do + i, Slot(m, sb, so + i)),
                        sb, so, db, do, n, i + 1, k)

\* a copy loop with no handler: when the copy of the k-th element throws, the
\* copies built so far stay where they are
RECURSIVE UninitCopyNoUnwindFrom(_, _, _, _, _, _, _, _)
UninitCopyNoUnwindFrom(m, sb, so, db, do, n, i, k) ==
    IF i = n THEN m
    ELSE IF k = i + 1 THEN [m EXCEPT !.thrown = TRUE]
    ELSE UninitCopyNoUnwindFrom(Construct(m, db, do + i, Slot(m, sb, so + i)),
                                sb, so, db, do, n, i + 1, k)

CopyNNoUnwind(m, sb, so, db, do, n, k) ==
    UninitCopyNoUnwindFrom(m, sb, so, db, do, n, 0, k)

UninitializedCopyN(m, sb, so, db, do, n, k) ==
    UninitCopyFrom(m, sb, so, db, do, n, 0, k)

\* std::uninitialized_move_n(src + so, n, dst + do)
RECURSIVE UninitializedMoveN(_, _, _, _, _, _)
UninitializedMoveN(m, sb, so, db, do, n) ==
    IF n = 0 THEN m
    ELSE UninitializedMoveN(MoveOut(Construct(m, db, do, Slot(m, sb, so)), sb, so),
                            sb, so + 1, db, do + 1, n - 1)

\* std::uninitialized_default_construct_n(buf + off, n): for a scalar T the
\* objects are left with indeterminate values
RECURSIVE UninitializedDefaultConstructN(_, _, _, _)
UninitializedDefaultConstructN(m, b, off, n) ==
    IF n = 0 THEN m
    ELSE UninitializedDefaultConstructN(Construct(m, b, off, Garbage), b, off + 1, n - 1)

\* std::uninitialized_value_construct_n(buf + off, n)
RECURSIVE UninitializedValueConstructN(_, _, _, _)
UninitializedValueConstructN(m, b, off, n) ==
    IF n = 0 THEN m
    ELSE UninitializedValueConstructN(Construct(m, b, off, ValueInit), b, off + 1, n - 1)

\* a relocation that always moves, the move of the k-th element throwing
\* (k = 0: none does): the elements before it have been moved from
RECURSIVE UninitMoveFrom(_, _, _, _, _, _, _, _)
UninitMoveFrom(m, sb, so, db, do, n, i, k) ==
    IF i = n THEN m
    ELSE IF k = i + 1 THEN [DestroyN(m, db, do, i) EXCEPT !.thrown = TRUE]
    ELSE UninitMoveFrom(MoveOut(Construct(m, db, do + i, Slot(m, sb, so + i)), sb, so + i),
                        sb, so, db, do, n, i + 1, k)

RelocateAlwaysMove(m, sb, so, db, do, n, k) == UninitMoveFrom(m, sb, so, db, do, n, 0, k)

\* the relocation policy: if constexpr (is_nothrow_move_constructible_v<T> ||
\* !is_copy_constructible_v<T>) move, else copy
Relocate(m, sb, so, db, do, n, k) ==
    IF policy = "move" THEN UninitializedMoveN(m, sb, so, db, do, n)
    ELSE UninitializedCopyN(m, sb, so, db, do, n, k)

\* a failing copy is an input only when elements are relocated by copy
FailPoints(n) == IF policy = "copy" THEN 0..n ELSE {0}

\* ------------------------------------------------------------ observation
Size(vc, v) == vc[v].size_
Capacity(vc, v) == vc[v].capacity_

\* operator[] on 0..Size()-1, as a sequence
Contents(vc, hp, v) == [i \in 1..vc[v].size_ |-> hp[vc[v].buffer_].slots[i]]

\* a growth by one slot
GrownByOne(s) == s + 1

\* growth: size_ == 0 ? 1 : size_ * 2
GrownCapacity(s) == IF s = 0 THEN 1 ELSE s * 2

\* ------------------------------------------------------------- operations
\* What an operation yields: the vectors, the machine, the returned position
\* (an index into the storage block `retbuf`), the branch taken.
Outcome(vc, m, ret, retbuf, branch) ==
    [vec |-> vc, m |-> m, ret |-> ret, retbuf |-> retbuf, branch |-> branch]

\* The growth path shared by PushBack, EmplaceBack and Emplace: build the new
\* block with x at index p, relocate the prefix and the suffix around it, destroy
\* the originals, data_.Swap(new_buffer), and let new_buffer's destructor run.
GrowInsert(vc, hp, v, p, x, k) ==
    LET s   == vc[v].size_
        old == vc[v].buffer_
        n   == GrownCapacity(s)
        nb  == AllocatedAddress(hp, n)
        m1  == ConstructValue(Allocate(Machine(hp), n), nb, p, x, k)
        m2  == IF m1.thrown THEN m1 ELSE Relocate(m1, old, 0, nb, 0, p, k)
        m3  == IF m2.thrown THEN m2
               ELSE Relocate(m2, old, p, nb, p + 1, s - p, IF k > p THEN k - p ELSE 0)
    IN  IF m3.thrown
        THEN Outcome(vc, RawMemoryDtor(m3, nb, n), p, nb, "grow")
        ELSE Outcome([vc EXCEPT ![v].buffer_ = nb, ![v].capacity_ = n, ![v].size_ = s + 1],
                     RawMemoryDtor(DestroyN(m3, old, 0, s), old, vc[v].capacity_),
                     p, nb, "grow")

\* Vector::PushBack(const T&), Vector::PushBack(T&&)
PushBackOp(vc, hp, v, x, k) ==
    LET s == vc[v].size_ IN
    IF s = vc[v].capacity_
    THEN GrowInsert(vc, hp, v, s, x, k)
    ELSE LET m1 == ConstructValue(Machine(hp), vc[v].buffer_, s, x, k)
         IN  Outcome(IF m1.thrown THEN vc ELSE [vc EXCEPT ![v].size_ = s + 1],
                     m1, s, vc[v].buffer_, "append")

\* a PopBack that destroys the last element and keeps size_
PopBackKeepsSize(vc, hp, v) ==
    Outcome(vc, Destroy(Machine(hp), vc[v].buffer_, vc[v].size_ - 1),
            vc[v].size_ - 1, vc[v].buffer_, "pop")

\* Vector::PopBack(): data_[--size_].~T()
PopBackOp(vc, hp, v) ==
    LET s == vc[v].size_ - 1 IN
    Outcome([vc EXCEPT ![v].size_ = s],
            Destroy(Machine(hp), vc[v].buffer_, s), s, vc[v].buffer_, "pop")

\* Vector::EmplaceBack(args...): as PushBack, and returns data_[size_ - 1]
EmplaceBackOp(vc, hp, v, x, k) ==
    LET s == vc[v].size_ IN
    IF s = vc[v].capacity_
    THEN GrowInsert(vc, hp, v, s, x, k)
    ELSE LET m1 == ConstructValue(Machine(hp), vc[v].buffer_, s, x, k)
         IN  Outcome(IF m1.thrown THEN vc ELSE [vc EXCEPT ![v].size_ = s + 1],
                     m1, s, vc[v].buffer_, "append")

\* a shift that walks from the head: each element overwrites the next before
\* that one was moved
RECURSIVE MoveBackwardFromHead(_, _, _, _, _)
MoveBackwardFromHead(m, b, first, lst, dlast) ==
    IF lst = first THEN m
    ELSE MoveBackwardFromHead(
             MoveOut(Assign(m, b, first + (dlast - lst), Slot(m, b, first), Garbage),
                     b, first),
             b, first + 1, lst, dlast + 1)

\* std::move_backward(buf + first, buf + lst, buf + dlast): from the tail,
\* buf[--dlast] = std::move(buf[--lst])
RECURSIVE MoveBackward(_, _, _, _, _)
MoveBackward(m, b, first, lst, dlast) ==
    IF lst = first THEN m
    ELSE MoveBackward(MoveOut(Assign(m, b, dlast - 1, Slot(m, b, lst - 1), Garbage),
                              b, lst - 1),
                      b, first, lst - 1, dlast - 1)

\* std::move(buf + first, buf + lst, buf + d): from the head,
\* buf[d++] = std::move(buf[first++]).  `bad` is what an assignment into a
\* destroyed slot leaves instead of the value (FALSE: the value itself).
RECURSIVE MoveForward(_, _, _, _, _, _)
MoveForward(m, b, first, lst, d, bad) ==
    IF first = lst THEN m
    ELSE MoveForward(MoveOut(Assign(m, b, d, Slot(m, b, first),
                                    IF bad THEN Garbage ELSE Slot(m, b, first)),
                             b, first),
                     b, first + 1, lst, d + 1, bad)

\* an Emplace whose third branch shifts the tail first and builds the value
\* from args only then, on top of the moved-from element at pos
EmplaceBuildsAfterShift(vc, hp, v, p, x, k) ==
    LET s == vc[v].size_
        b == vc[v].buffer_
    IN  IF s = vc[v].capacity_
        THEN GrowInsert(vc, hp, v, p, x, k)
        ELSE IF p = s
        THEN LET m1 == ConstructValue(Machine(hp), b, p, x, k)
             IN  Outcome(IF m1.thrown THEN vc ELSE [vc EXCEPT ![v].size_ = s + 1],
                         m1, p, b, "append")
        ELSE LET m1 == MoveOut(Construct(Machine(hp), b, s, Slot(Machine(hp), b, s - 1)),
                               b, s - 1)
                 m2 == MoveBackward(m1, b, p, s - 1, s)
                 m3 == ConstructValue(m2, nullptr, 0, x, k)
             IN  IF m3.thrown THEN Outcome(vc, m3, p, b, "shift")
                 ELSE Outcome([vc EXCEPT ![v].size_ = s + 1],
                              Assign(m3, b, p, x, Garbage), p, b, "shift")

\* Vector::Emplace(pos, args...) with pos = begin() + p; Insert(pos, value)
\* calls it.  In the third branch temp_el is a local, not a slot of the block.
EmplaceOp(vc, hp, v, p, x, k) ==
    LET s == vc[v].size_
        b == vc[v].buffer_
    IN  IF s = vc[v].capacity_
        THEN GrowInsert(vc, hp, v, p, x, k)
        ELSE IF p = s
        THEN LET m1 == ConstructValue(Machine(hp), b, p, x, k)
             IN  Outcome(IF m1.thrown THEN vc ELSE [vc EXCEPT ![v].size_ = s + 1],
                         m1, p, b, "append")
        ELSE LET m0 == ConstructValue(Machine(hp), nullptr, 0, x, k)
                 m1 == MoveOut(Construct(m0, b, s, Slot(m0, b, s - 1)), b, s - 1)
                 m2 == MoveBackward(m1, b, p, s - 1, s)
                 m3 == Assign(m2, b, p, x, Garbage)
             IN  IF m0.thrown THEN Outcome(vc, m0, p, b, "shift")
                 ELSE Outcome([vc EXCEPT ![v].size_ = s + 1], m3, p, b, "shift")

\* Vector::Erase(pos) with pos = begin() + p
EraseOp(vc, hp, v, p, bad) ==
    LET s  == vc[v].size_
        b  == vc[v].buffer_
        m1 == Destroy(Machine(hp), b, p)
        m2 == MoveForward(m1, b, p + 1, s, p, bad)
    IN  Outcome([vc EXCEPT ![v].size_ = s - 1], m2, p, b, "erase")

\* a Reserve that reallocates to exactly c whenever the elements fit in c
ReserveExact(vc, hp, v, c, k) ==
    LET s   == vc[v].size_
        old == vc[v].buffer_
    IN  IF c = vc[v].capacity_ \/ c < s
        THEN Outcome(vc, Machine(hp), 0, old, "noop")
        ELSE LET nb == AllocatedAddress(hp, c)
                 m1 == Relocate(Allocate(Machine(hp), c), old, 0, nb, 0, s, k)
             IN  Outcome([vc EXCEPT ![v].buffer_ = nb, ![v].capacity_ = c],
                         RawMemoryDtor(DestroyN(m1, old, 0, s), old, vc[v].capacity_),
                         0, nb, "grow")

\* Vector::Reserve(capacity)
ReserveOp(vc, hp, v, c, k) ==
    LET s   == vc[v].size_
        old == vc[v].buffer_
    IN  IF c <= vc[v].capacity_
        THEN Outcome(vc, Machine(hp), 0, old, "noop")
        ELSE LET nb == AllocatedAddress(hp, c)
                 m1 == Relocate(Allocate(Machine(hp), c), old, 0, nb, 0, s, k)
             IN  IF m1.thrown
                 THEN Outcome(vc, RawMemoryDtor(m1, nb, c), 0, old, "grow")
                 ELSE Outcome([vc EXCEPT ![v].buffer_ = nb, ![v].capacity_ = c],
                              RawMemoryDtor(DestroyN(m1, old, 0, s), old, vc[v].capacity_),
                              0, nb, "grow")

\* Vector::Resize(new_size)
ResizeOp(vc, hp, v, n, k) ==
    LET s == vc[v].size_ IN
    IF n = s THEN Outcome(vc, Machine(hp), 0, vc[v].buffer_, "noop")
    ELSE IF n < s
    THEN Outcome([vc EXCEPT ![v].size_ = n],
                 DestroyN(Machine(hp), vc[v].buffer_, n, s - n), 0, vc[v].buffer_, "shrink")
    ELSE LET r == ReserveOp(vc, hp, v, n, k) IN
         IF r.m.thrown THEN Outcome(r.vec, r.m, 0, r.retbuf, "extend")
         ELSE Outcome([r.vec EXCEPT ![v].size_ = n],
                      UninitializedValueConstructN(r.m, r.vec[v].buffer_, s, n - s),
                      0, r.vec[v].buffer_, "extend")

\* v[i] = x
WriteOp(vc, hp, v, i, x) ==
    Outcome(vc, Assign(Machine(hp), vc[v].buffer_, i, x, Garbage), i, vc[v].buffer_, "write")

\* Vector::Vector(size)
ConstructSizeOp(vc, hp, v, n) ==
    LET nb == AllocatedAddress(hp, n) IN
    Outcome([vc EXCEPT ![v] = [exists |-> TRUE, buffer_ |-> nb, capacity_ |-> n, size_ |-> n]],
            UninitializedValueConstructN(Allocate(Machine(hp), n), nb, 0, n),
            0, nb, "size")

\* a memberwise copy: the new vector points at other's block
CopyConstructShares(vc, hp, v, w, k) ==
    Outcome([vc EXCEPT ![v] = vc[w]], Machine(hp), 0, vc[w].buffer_, "copy")

\* Vector::Vector(const Vector& other), the copy of the k-th element throwing
\* (k = 0: none): data_ is then destroyed and no object v comes to exist
CopyConstructOp(vc, hp, v, w, k) ==
    LET n  == vc[w].size_
        nb == AllocatedAddress(hp, n)
        m1 == UninitializedCopyN(Allocate(Machine(hp), n), vc[w].buffer_, 0, nb, 0, n, k)
    IN  IF m1.thrown
        THEN Outcome(vc, RawMemoryDtor(m1, nb, n), 0, nb, "copy")
        ELSE Outcome([vc EXCEPT ![v] = [exists |-> TRUE, buffer_ |-> nb,
                                        capacity_ |-> n, size_ |-> n]],
                     m1, 0, nb, "copy")

\* Vector::~Vector(): std::destroy_n, then ~RawMemory on data_
DestructOp(vc, hp, v) ==
    Outcome([vc EXCEPT ![v] = NoVector],
            RawMemoryDtor(DestroyN(Machine(hp), vc[v].buffer_, 0, vc[v].size_),
                          vc[v].buffer_, vc[v].capacity_),
            0, nullptr, "destruct")

\* the RawMemory member data_ of a vector
EmptyRaw == [buffer_ |-> nullptr, capacity_ |-> 0]
RawOf(vc, v) == [buffer_ |-> vc[v].buffer_, capacity_ |-> vc[v].capacity_]
SetRaw(vc, v, r) == [vc EXCEPT ![v].buffer_ = r.buffer_, ![v].capacity_ = r.capacity_]

\* RawMemory::operator=(RawMemory&& other) on dst.data_ = std::move(src.data_):
\* takes other's block and empties other; the block held before is not released
RawMoveAssign(vc, dst, src) == SetRaw(SetRaw(vc, dst, RawOf(vc, src)), src, EmptyRaw)

\* a swap without the temporary: a.data_ = std::move(b.data_);
\* b.data_ = std::move(a.data_)
StdSwapRawNoTemp(vc, a, b) == RawMoveAssign(RawMoveAssign(vc, a, b), b, a)

\* std::swap(a.data_, b.data_): RawMemory tmp(std::move(a.data_));
\* a.data_ = std::move(b.data_); b.data_ = std::move(tmp); ~tmp with capacity 0
StdSwapRaw(vc, a, b) ==
    LET tmp == RawOf(vc, a)
        vc1 == SetRaw(vc, a, EmptyRaw)
        vc2 == RawMoveAssign(vc1, a, b)
    IN  SetRaw(vc2, b, tmp)

\* a move construction that copies other's members and leaves other as it was
MoveConstructKeepsSource(vc, hp, v, w) ==
    Outcome([vc EXCEPT ![v] = vc[w]], Machine(hp), 0, vc[w].buffer_, "move")

\* Vector::Vector(Vector&& other)
MoveConstructOp(vc, hp, v, w) ==
    LET vc1 == [vc EXCEPT ![v] = [exists |-> TRUE, buffer_ |-> vc[w].buffer_,
                                  capacity_ |-> vc[w].capacity_, size_ |-> vc[w].size_]]
        vc2 == [SetRaw(vc1, w, EmptyRaw) EXCEPT ![w].size_ = 0]
    IN  Outcome(vc2, Machine(hp), 0, vc2[v].buffer_, "move")

\* a move assignment that leaves other's size_ as it was
MoveAssignKeepsSourceSize(vc, hp, v, w) ==
    LET vc1 == RawMoveAssign(vc, v, w)
    IN  Outcome([vc1 EXCEPT ![v].size_ = vc1[w].size_], Machine(hp), 0, vc1[v].buffer_, "move")

\* Vector::operator=(Vector&& other)
MoveAssignOp(vc, hp, v, w) ==
    LET vc1 == RawMoveAssign(vc, v, w)
        vc2 == [vc1 EXCEPT ![v].size_ = vc1[w].size_]
        vc3 == [vc2 EXCEPT ![w].size_ = 0]
    IN  Outcome(vc3, Machine(hp), 0, vc3[v].buffer_, "move")

\* Vector::Swap(other)
SwapOp(vc, hp, v, w) ==
    LET vc1 == StdSwapRaw(vc, v, w)
        vc2 == [vc1 EXCEPT ![v].size_ = vc1[w].size_, ![w].size_ = vc1[v].size_]
    IN  Outcome(vc2, Machine(hp), 0, vc2[v].buffer_, "swap")

\* an element-wise assignment that stops one element early
RECURSIVE CopyAssignRangeShort(_, _, _, _, _)
CopyAssignRangeShort(m, db, sb, from, to) ==
    IF from >= to - 1 THEN m
    ELSE CopyAssignRangeShort(Assign(m, db, from, Slot(m, sb, from), Garbage),
                              db, sb, from + 1, to)

\* data_[i] = other.data_[i] for i in from..to-1
RECURSIVE CopyAssignRange(_, _, _, _, _)
CopyAssignRange(m, db, sb, from, to) ==
    IF from >= to THEN m
    ELSE CopyAssignRange(Assign(m, db, from, Slot(m, sb, from), Garbage),
                         db, sb, from + 1, to)

\* Vector::operator=(const Vector& other), the k-th copy construction throwing
CopyAssignOp(vc, hp, v, w, k) ==
    LET s  == vc[v].size_
        n  == vc[w].size_
        b  == vc[v].buffer_
        ob == vc[w].buffer_
    IN  IF w = v THEN Outcome(vc, Machine(hp), 0, b, "self")
        ELSE IF n > vc[v].capacity_
        THEN \* Vector other_copy(other); Swap(other_copy); ~other_copy
             LET nb == AllocatedAddress(hp, n)
                 m1 == UninitializedCopyN(Allocate(Machine(hp), n), ob, 0, nb, 0, n, k)
             IN  IF m1.thrown
                 THEN Outcome(vc, RawMemoryDtor(m1, nb, n), 0, b, "realloc")
                 ELSE Outcome([vc EXCEPT ![v].buffer_ = nb, ![v].capacity_ = n,
                                         ![v].size_ = n],
                              RawMemoryDtor(DestroyN(m1, b, 0, s), b, vc[v].capacity_),
                              0, nb, "realloc")
        ELSE IF n < s
        THEN Outcome([vc EXCEPT ![v].size_ = n],
                     DestroyN(CopyAssignRange(Machine(hp), b, ob, 0, n), b, n, s - n),
                     0, b, "shorter")
        ELSE LET m1 == UninitializedCopyN(CopyAssignRange(Machine(hp), b, ob, 0, s),
                                          ob, s, b, s, n - s, k)
             IN  IF m1.thrown THEN Outcome(vc, m1, 0, b, "longer")
                 ELSE Outcome([vc EXCEPT ![v].size_ = n], m1, 0, b, "longer")

\* ---------------------------------------------------------------- actions
NoSnap == [valid |-> FALSE, src |-> "a", dst |-> "b", vec |-> NoVector, contents |-> <<>>]

\* The allocated blocks that no vector's data_ holds: nothing can reach them
\* again, neither to destroy their objects nor to deallocate them.
Orphans(vc, hp) ==
    {b \in Blocks : hp[b].alloc /\ \A v \in VecNames : vc[v].buffer_ # b}

RECURSIVE SumLive(_, _)
SumLive(hp, S) ==
    IF S = {} THEN 0
    ELSE LET b == CHOOSE c \in S : TRUE
         IN  Cardinality(LiveSlots(hp[b])) + SumLive(hp, S \ {b})

Saturate(n) == IF n > MaxLeak THEN MaxLeak ELSE n

\* The state after an operation, and the record of it.  A block orphaned by
\* the operation is counted in leak, with its live objects, and leaves the
\* heap the vectors can reach.
Commit(op, v, w, p, x, k, r) ==
    /\ vec' = r.vec
    /\ heap' = [b \in Blocks |-> IF b \in Orphans(r.vec, r.m.heap) THEN FreeBlock
                                 ELSE r.m.heap[b]]
    /\ leak' = [blocks |-> Saturate(leak.blocks + Cardinality(Orphans(r.vec, r.m.heap))),
                objects |-> Saturate(leak.objects
                                     + SumLive(r.m.heap, Orphans(r.vec, r.m.heap)))]
    /\ last' = [op |-> op, v |-> v, w |-> w, p |-> p, x |-> x, k |-> k,
                branch |-> r.branch, ret |-> r.ret, retbuf |-> r.retbuf,
                outcome |-> IF r.m.thrown THEN "throw" ELSE "ok",
                nctor |-> r.m.nctor, ndtor |-> r.m.ndtor, nassign |-> r.m.nassign,
                lost |-> r.m.lost, ub |-> r.m.ub,
                orphans |-> Cardinality(Orphans(r.vec, r.m.heap)),
                pvec |-> vec, pheap |-> heap]
    /\ UNCHANGED <<policy, limit>>

\* an operation that may modify one of the vectors in S ends the watch on a
\* copy whose source is among them
Touch(S) == snap' = IF snap.valid /\ snap.src \in S THEN NoSnap ELSE snap

GrowthFits(v) ==
    vec[v].size_ = vec[v].capacity_ => CanAllocate(heap, GrownCapacity(vec[v].size_))

\* the failure points of an insertion into v: the constructor of the added
\* value, and in a growth each of the relocations
GrowthFailPoints(v) ==
    {ValueThrows} \cup
        (IF vec[v].size_ = vec[v].capacity_ THEN FailPoints(vec[v].size_) ELSE {0})

DefaultConstruct(v) ==
    /\ ~vec[v].exists
    /\ Commit("Vector", v, v, 0, 0, 0,
              Outcome([vec EXCEPT ![v] = EmptyVector], Machine(heap), 0, nullptr, "default"))
    /\ Touch({v})
    /\ UNCHANGED pp

ConstructSize(v, n) ==
    /\ ~vec[v].exists
    /\ CanAllocate(heap, n)
    /\ Commit("Vector", v, v, 0, 0, 0, ConstructSizeOp(vec, heap, v, n))
    /\ Touch({v})
    /\ UNCHANGED pp

CopyConstructStep(v, w, k) ==
    /\ ~vec[v].exists
    /\ vec[w].exists
    /\ CanAllocate(heap, vec[w].size_)
    /\ k \in 0..vec[w].size_
    /\ Commit("CopyConstruct", v, w, 0, 0, k, CopyConstructOp(vec, heap, v, w, k))
    /\ UNCHANGED pp

CopyConstruct(v, w, k) ==
    /\ CopyConstructStep(v, w, k)
    /\ Touch({v})

\* a copy construction whose source is watched from then on
WatchedCopyConstruct(v, w) ==
    /\ CopyConstructStep(v, w, 0)
    /\ snap' = [valid |-> TRUE, src |-> w, dst |-> v, vec |-> vec[w],
                contents |-> Contents(vec, heap, w)]

MoveConstruct(v, w) ==
    /\ ~vec[v].exists
    /\ vec[w].exists
    /\ Commit("MoveConstruct", v, w, 0, 0, 0, MoveConstructOp(vec, heap, v, w))
    /\ Touch({v, w})
    /\ UNCHANGED pp

Destruct(v) ==
    /\ vec[v].exists
    /\ Commit("Destruct", v, v, 0, 0, 0, DestructOp(vec, heap, v))
    /\ Touch({v})
    /\ UNCHANGED pp

CopyAssign(v, w, k) ==
    /\ vec[v].exists
    /\ vec[w].exists
    /\ (w # v /\ vec[w].size_ > vec[v].capacity_) => CanAllocate(heap, vec[w].size_)
    /\ k \in (IF w = v THEN {0}
              ELSE IF vec[w].size_ > vec[v].capacity_ THEN 0..vec[w].size_
              ELSE IF vec[w].size_ < vec[v].size_ THEN {0}
              ELSE 0..(vec[w].size_ - vec[v].size_))
    /\ Commit("CopyAssign", v, w, 0, 0, k, CopyAssignOp(vec, heap, v, w, k))
    /\ Touch({v})
    /\ UNCHANGED pp

MoveAssign(v, w) ==
    /\ vec[v].exists
    /\ vec[w].exists
    /\ Commit("MoveAssign", v, w, 0, 0, 0, MoveAssignOp(vec, heap, v, w))
    /\ Touch({v, w})
    /\ UNCHANGED pp

Swap(v, w) ==
    /\ vec[v].exists
    /\ vec[w].exists
    /\ Commit("Swap", v, w, 0, 0, 0, SwapOp(vec, heap, v, w))
    /\ Touch({v, w})
    /\ UNCHANGED pp

Reserve(v, c, k) ==
    /\ vec[v].exists
    /\ c > vec[v].capacity_ => CanAllocate(heap, c)
    /\ k \in (IF c > vec[v].capacity_ THEN FailPoints(vec[v].size_) ELSE {0})
    /\ Commit("Reserve", v, v, c, 0, k, ReserveOp(vec, heap, v, c, k))
    /\ Touch({v})
    /\ UNCHANGED pp

Resize(v, n, k) ==
    /\ vec[v].exists
    /\ n > vec[v].capacity_ => CanAllocate(heap, n)
    /\ k \in (IF n > vec[v].capacity_ THEN FailPoints(vec[v].size_) ELSE {0})
    /\ Commit("Resize", v, v, n, 0, k, ResizeOp(vec, heap, v, n, k))
    /\ Touch({v})
    /\ UNCHANGED pp

PushBack(v, x, k) ==
    /\ vec[v].exists
    /\ GrowthFits(v)
    /\ k \in GrowthFailPoints(v)
    /\ Commit("PushBack", v, v, vec[v].size_, x, k, PushBackOp(vec, heap, v, x, k))
    /\ Touch({v})
    /\ UNCHANGED pp

EmplaceBack(v, x, k) ==
    /\ vec[v].exists
    /\ GrowthFits(v)
    /\ k \in GrowthFailPoints(v)
    /\ Commit("EmplaceBack", v, v, vec[v].size_, x, k, EmplaceBackOp(vec, heap, v, x, k))
    /\ Touch({v})
    /\ UNCHANGED pp

PopBack(v) ==
    /\ vec[v].exists
    /\ vec[v].size_ > 0
    /\ Commit("PopBack", v, v, vec[v].size_ - 1, 0, 0, PopBackOp(vec, heap, v))
    /\ Touch({v})
    /\ UNCHANGED pp

\* Emplace(begin() + p, x), Insert(begin() + p, x)
Emplace(v, p, x, k) ==
    /\ vec[v].exists
    /\ p \in 0..vec[v].size_
    /\ GrowthFits(v)
    /\ k \in GrowthFailPoints(v)
    /\ Commit("Emplace", v, v, p, x, k, EmplaceOp(vec, heap, v, p, x, k))
    /\ Touch({v})
    /\ UNCHANGED pp

\* Erase(begin() + p).  The first assignment of the shift targets the slot
\* whose object was just destroyed, which is undefined: `bad` chooses between
\* the slot holding the assigned value and holding garbage.
Erase(v, p, bad) ==
    /\ vec[v].exists
    /\ p \in 0..(vec[v].size_ - 1)
    /\ bad => p < vec[v].size_ - 1
    /\ Commit("Erase", v, v, p, 0, 0, EraseOp(vec, heap, v, p, bad))
    /\ Touch({v})
    /\ UNCHANGED pp

\* v[i] = x
Write(v, i, x) ==
    /\ vec[v].exists
    /\ i \in 0..(vec[v].size_ - 1)
    /\ Commit("Write", v, v, i, x, 0, WriteOp(vec, heap, v, i, x))
    /\ Touch({v})
    /\ UNCHANGED pp

\* ------------------------------------------------------------------- init
NoOp == [op |-> "Init", v |-> "a", w |-> "a", p |-> 0, x |-> 0, k |-> 0,
         branch |-> "", ret |-> 0, retbuf |-> nullptr, outcome |-> "ok",
         nctor |-> 0, ndtor |-> 0, nassign |-> 0, lost |-> 0, ub |-> {},
         orphans |-> 0,
         pvec |-> [n \in VecNames |-> NoVector],
         pheap |-> [b \in Blocks |-> FreeBlock]]

\* a is default-constructed, b is not constructed yet
InitWith(l, pols) ==
    /\ limit = l
    /\ leak = [blocks |-> 0, objects |-> 0]
    /\ vec = [n \in VecNames |-> IF n = "a" THEN EmptyVector ELSE NoVector]
    /\ heap = [b \in Blocks |-> FreeBlock]
    /\ policy \in pols
    /\ last = NoOp
    /\ pp = [pushes |-> 0, pops |-> 0, inserts |-> 0, reallocs |-> 0, abs |-> <<>>]
    /\ snap = NoSnap

Init == InitWith(MaxCap, Policies)

\* ------------------------------------------------ one array, every operation
Positions == 0..limit

Next ==
    \/ DefaultConstruct("a")
    \/ \E n \in Positions : ConstructSize("a", n)
    \/ Destruct("a")
    \/ \E c \in Positions, k \in Positions : Reserve("a", c, k)
    \/ \E n \in Positions, k \in Positions : Resize("a", n, k)
    \/ \E x \in Values, k \in Positions : PushBack("a", x, k)
    \/ \E x \in Values, k \in Positions : EmplaceBack("a", x, k)
    \/ PopBack("a")
    \/ \E p \in Positions, x \in Values, k \in Positions : Emplace("a", p, x, k)
    \/ \E p \in Positions, bad \in BOOLEAN : Erase("a", p, bad)
    \/ \E i \in Positions, x \in Values : Write("a", i, x)

Spec == Init /\ [][Next]_vars

\* --------------------------------------- one array: append, reserve, insert
NextInsert ==
    \/ \E x \in Values, k \in Positions : PushBack("a", x, k)
    \/ \E x \in Values, k \in Positions : EmplaceBack("a", x, k)
    \/ PopBack("a")
    \/ \E c \in Positions, k \in Positions : Reserve("a", c, k)
    \/ \E p \in Positions, x \in Values, k \in Positions : Emplace("a", p, x, k)

SpecInsert == Init /\ [][NextInsert]_vars

\* the array v before the last operation
PreSize(v) == Size(last.pvec, v)
PreCapacity(v) == Capacity(last.pvec, v)
PreContents(v) == Contents(last.pvec, last.pheap, v)
PreBuffer(v) == last.pvec[v].buffer_
Done(op) == last.op = op /\ last.outcome = "ok"
Threw(op) == last.op = op /\ last.outcome = "throw"

\* C2: Emplace/Insert at position p of an array of size n (0 <= p <= n), in
\* each of its branches (growth, append, in-place shift), yields size n+1 with
\* the new value at index p, the former elements 0..p-1 at their indices and
\* the former elements p..n-1 at p+1..n in order, and returns the position p
\* of the array's current storage block.
EmplaceInsertsAtPosition ==
    Done("Emplace") =>
        LET v == last.v
            n == PreSize(v)
            p == last.p
            old == PreContents(v)
            new == Contents(vec, heap, v)
        IN  /\ last.branch \in {"grow", "append", "shift"}
            /\ Size(vec, v) = n + 1
            /\ new[p + 1] = last.x
            /\ \A i \in 1..p : new[i] = old[i]
            /\ \A i \in (p + 1)..n : new[i + 1] = old[i]
            /\ last.ret = p
            /\ last.retbuf = vec[v].buffer_

\* C2 witness: an in-place insert strictly inside a three-element array
\* whose neighbours differ.
EmplaceShiftWitness ==
    /\ Done("Emplace")
    /\ last.branch = "shift"
    /\ PreSize("a") = 3
    /\ last.p = 1
    /\ PreContents("a")[1] # PreContents("a")[2]
    /\ PreContents("a")[2] # PreContents("a")[3]

\* C9: if, during Reserve(c) with c > capacity on an array relocated by copy,
\* the copy of the K-th element fails (K in 1..size), the array keeps its size,
\* capacity, storage block and contents, the K-1 copies built in the new block
\* have been destroyed and the new block has been released.
ReserveFailureLeavesArrayIntact ==
    Threw("Reserve") =>
        /\ vec = last.pvec
        /\ heap = last.pheap
        /\ last.nctor = last.k - 1
        /\ last.ndtor = last.k - 1
        /\ last.lost = 0
        /\ last.ub = {}

\* C9 witness: Reserve failed on the third of three relocations.
ReserveFailureWitness ==
    /\ Threw("Reserve")
    /\ policy = "copy"
    /\ PreSize("a") = 3
    /\ last.k = 3
    /\ last.p > PreCapacity("a")

\* C10: if relocation by copy fails on the K-th element in the growth path of
\* PushBack, EmplaceBack or Emplace/Insert, then every object constructed in
\* the new block (the added element and each relocated copy) has been
\* destroyed, the new block has been released, and the array's size, capacity
\* and contents are as before the call.
GrowthFailureUnwindsNewBlock ==
    (Threw("PushBack") \/ Threw("EmplaceBack") \/ Threw("Emplace")) =>
        /\ vec = last.pvec
        /\ heap = last.pheap
        /\ last.lost = 0
        /\ last.ndtor = last.nctor

\* ----------------------------------------------------------- after Erase
\* C3: Erase at position p of an array of size n (0 <= p < n) yields size n-1
\* with the former elements 0..p-1 unchanged and the former elements p+1..n-1
\* at indices p..n-2 in order, leaves the capacity unchanged and returns the
\* position p.
EraseShiftsLeft ==
    Done("Erase") =>
        LET v == last.v
            n == PreSize(v)
            p == last.p
            old == PreContents(v)
            new == Contents(vec, heap, v)
        IN  /\ Size(vec, v) = n - 1
            /\ \A i \in 1..p : new[i] = old[i]
            /\ \A i \in (p + 1)..(n - 1) : new[i] = old[i + 1]
            /\ Capacity(vec, v) = PreCapacity(v)
            /\ vec[v].buffer_ = PreBuffer(v)
            /\ last.ret = p

\* the slots of v's block
SlotsOf(v) == IF vec[v].buffer_ = nullptr THEN <<>> ELSE heap[vec[v].buffer_].slots

\* C4: after every completed operation, 0 <= live-count <= capacity, every
\* slot in [0, live-count) holds a constructed object and every slot in
\* [live-count, capacity) holds no live object.
LiveRangeInvariant ==
    \A v \in VecNames :
        vec[v].exists =>
            /\ 0 <= vec[v].size_
            /\ vec[v].size_ <= vec[v].capacity_
            /\ Len(SlotsOf(v)) = vec[v].capacity_
            /\ \A i \in 1..vec[v].size_ : SlotsOf(v)[i] # NoObject
            /\ \A i \in (vec[v].size_ + 1)..vec[v].capacity_ : SlotsOf(v)[i] = NoObject

\* ------------------------------------------------ two arrays: moving
NextMove ==
    \/ \E v \in VecNames : DefaultConstruct(v)
    \/ \E v \in VecNames, w \in VecNames : MoveConstruct(v, w)
    \/ \E v \in VecNames : Destruct(v)
    \/ \E v \in VecNames, w \in VecNames : MoveAssign(v, w)
    \/ \E v \in VecNames, x \in Values : PushBack(v, x, 0)
    \/ \E v \in VecNames : PopBack(v)

SpecMove == InitWith(MaxPairCap, {"move"}) /\ [][NextMove]_vars

\* C5: move-construct and move-assign from a source array (another array
\* than the destination) leave the source with Size() = 0 and the destination
\* holding the source's prior contents, in order, in the source's prior
\* storage block with its capacity, and construct, copy or move no element.
MoveTransfersStorage ==
    ((Done("MoveConstruct") \/ Done("MoveAssign")) /\ last.v # last.w) =>
        /\ Size(vec, last.w) = 0
        /\ Size(vec, last.v) = PreSize(last.w)
        /\ Contents(vec, heap, last.v) = PreContents(last.w)
        /\ vec[last.v].buffer_ = PreBuffer(last.w)
        /\ Capacity(vec, last.v) = PreCapacity(last.w)
        /\ PreBuffer(last.w) # nullptr =>
               heap[PreBuffer(last.w)] = last.pheap[PreBuffer(last.w)]
        /\ last.nctor = 0
        /\ last.nassign = 0
        /\ last.ndtor = 0

\* C5 witness: a move assignment carried two elements over.
MoveAssignWitness ==
    /\ Done("MoveAssign")
    /\ last.v # last.w
    /\ PreSize(last.w) = 2
    /\ Size(vec, last.v) = 2

\* C6: move-assign onto a destination that owns a block with live elements
\* releases it: each prior element of the destination is destroyed once and
\* its prior block is deallocated, so that once all arrays are destroyed no
\* block remains allocated and no element remains undestroyed.
MoveAssignReleasesDestination ==
    /\ (Done("MoveAssign") /\ last.v # last.w) =>
           /\ last.ndtor = PreSize(last.v)
           /\ last.orphans = 0
    /\ (\A v \in VecNames : ~vec[v].exists) =>
           /\ \A b \in Blocks : ~heap[b].alloc
           /\ leak.blocks = 0
           /\ leak.objects = 0

\* ------------------------------------------ two arrays: copy assignment
NextAssign ==
    \/ \E v \in VecNames : DefaultConstruct(v)
    \/ \E v \in VecNames : Destruct(v)
    \/ \E v \in VecNames, w \in VecNames, k \in Positions : CopyAssign(v, w, k)
    \/ \E v \in VecNames, x \in Values : PushBack(v, x, 0)
    \/ \E v \in VecNames : PopBack(v)

SpecAssign == InitWith(MaxPairCap, {"move"}) /\ [][NextAssign]_vars

\* C8: copy-assign of other into this (this # other), in each of its three
\* branches, leaves this with other's size and contents and other unchanged,
\* destroys exactly the surplus trailing elements of this when other is
\* shorter, and keeps this's capacity and storage block whenever other.Size()
\* <= this's capacity.
CopyAssignCopies ==
    (Done("CopyAssign") /\ last.v # last.w) =>
        LET v == last.v
            w == last.w
            s == PreSize(v)
            n == PreSize(w)
        IN  /\ last.branch \in {"realloc", "shorter", "longer"}
            /\ Size(vec, v) = n
            /\ Contents(vec, heap, v) = PreContents(w)
            /\ vec[w] = last.pvec[w]
            /\ Contents(vec, heap, w) = PreContents(w)
            /\ n < s =>
                   /\ last.ndtor = s - n
                   /\ \A i \in (n + 1)..s : SlotsOf(v)[i] = NoObject
            /\ n <= PreCapacity(v) =>
                   /\ Capacity(vec, v) = PreCapacity(v)
                   /\ vec[v].buffer_ = PreBuffer(v)

\* C8 witness: a longer other that fits: one element assigned over, one
\* copy-constructed behind it, in place.
CopyAssignLongerWitness ==
    /\ Done("CopyAssign")
    /\ last.branch = "longer"
    /\ PreSize(last.v) = 1
    /\ PreSize(last.w) = 2
    /\ PreContents(last.v)[1] # PreContents(last.w)[1]
    /\ last.nassign = 1
    /\ last.nctor = 1

\* ------------------------------------------------ a copy and its original
NextCopy ==
    \/ \E x \in Values : ~vec["b"].exists /\ PushBack("a", x, 0)
    \/ WatchedCopyConstruct("b", "a")
    \/ Destruct("b")
    \/ \E x \in Values : PushBack("b", x, 0)
    \/ PopBack("b")
    \/ \E p \in Positions, x \in Values : Emplace("b", p, x, 0)
    \/ \E p \in Positions, bad \in BOOLEAN : Erase("b", p, bad)
    \/ \E n \in Positions : Resize("b", n, 0)
    \/ \E c \in Positions : Reserve("b", c, 0)
    \/ \E i \in Positions, x \in Values : Write("b", i, x)

SpecCopy == InitWith(MaxPairCap, {"move"}) /\ [][NextCopy]_vars

\* C7: after B is copy-constructed from A, B has A's size and contents in a
\* block of its own of capacity A.Size(), and whatever mutations are then
\* applied to B, A keeps its size, capacity, storage block and contents.
CopyIsIndependent ==
    /\ Done("CopyConstruct") =>
           /\ Size(vec, last.v) = PreSize(last.w)
           /\ Contents(vec, heap, last.v) = PreContents(last.w)
           /\ Capacity(vec, last.v) = PreSize(last.w)
           /\ PreSize(last.w) > 0 =>
                  vec[last.v].buffer_ \notin {nullptr, vec[last.w].buffer_}
    /\ snap.valid =>
           /\ vec[snap.src] = snap.vec
           /\ Contents(vec, heap, snap.src) = snap.contents

\* C7 witness: B, a copy of a one-element A, has since been pushed onto.
CopyThenPushWitness ==
    /\ snap.valid
    /\ Len(snap.contents) = 1
    /\ Done("PushBack")
    /\ last.v = snap.dst
    /\ Contents(vec, heap, snap.dst) = Append(snap.contents, last.x)

\* ------------------------------------------- PushBack/PopBack histories
\* A run of PushBack and PopBack on the initially empty a, no copy failing,
\* beside the sequence it stands for: a push appends, a pop drops the last.
HistLength == pp.pushes + pp.pops + pp.inserts

\* 1 when the outcome r left a in another block than it has now
Reallocated(r) == IF r.vec["a"].buffer_ # vec["a"].buffer_ THEN 1 ELSE 0

HistPushBack(x) ==
    /\ HistLength < MaxOps
    /\ vec["a"].exists
    /\ GrowthFits("a")
    /\ Commit("PushBack", "a", "a", vec["a"].size_, x, 0, PushBackOp(vec, heap, "a", x, 0))
    /\ pp' = [pp EXCEPT !.pushes = @ + 1, !.abs = Append(@, x),
                        !.reallocs = @ + Reallocated(PushBackOp(vec, heap, "a", x, 0))]
    /\ Touch({})

HistPopBack ==
    /\ HistLength < MaxOps
    /\ vec["a"].exists
    /\ vec["a"].size_ > 0
    /\ Commit("PopBack", "a", "a", vec["a"].size_ - 1, 0, 0, PopBackOp(vec, heap, "a"))
    /\ pp' = [pp EXCEPT !.pops = @ + 1, !.abs = SubSeq(@, 1, Len(@) - 1)]
    /\ Touch({})

NextPushPop ==
    \/ \E x \in Values : HistPushBack(x)
    \/ HistPopBack

SpecPushPop == InitWith(MaxHistCap, Policies) /\ [][NextPushPop]_vars

\* C1: after any run of PushBack and PopBack on an initially empty array,
\* Size() is #pushes - #pops and indices 0..Size()-1 read back the sequence
\* obtained by appending on push and dropping the last element on pop,
\* whatever reallocations happened.
PushPopRefinesSequence ==
    /\ Size(vec, "a") = pp.pushes - pp.pops
    /\ Contents(vec, heap, "a") = pp.abs

\* C1 witness: pushes and pops both happened, the block was reallocated to
\* capacity 8, and elements remain.
PushPopWitness ==
    /\ pp.pops >= 2
    /\ pp.pushes >= 5
    /\ Capacity(vec, "a") = 8
    /\ Size(vec, "a") = 3
    /\ last.op = "PopBack"

\* ------------------------------- one array: the added value fails to build
ValueFailPoints == {ValueThrows, 0}

NextValueFail ==
    \/ \E x \in Values, k \in ValueFailPoints : PushBack("a", x, k)
    \/ \E x \in Values, k \in ValueFailPoints : EmplaceBack("a", x, k)
    \/ \E p \in Positions, x \in Values, k \in ValueFailPoints : Emplace("a", p, x, k)
    \/ PopBack("a")

SpecValueFail == Init /\ [][NextValueFail]_vars

\* the last operation added (or tried to add) an element
Inserting == last.op \in {"PushBack", "EmplaceBack", "Emplace"}

\* C11: if constructing the inserted value itself fails in Emplace/Insert/
\* PushBack/EmplaceBack, in any branch (growth, append, in-place shift), the
\* array is unmodified: same size, capacity, storage block and element values,
\* no existing element moved, assigned or destroyed, and the block allocated
\* for a growth is released.
ValueFailureLeavesArrayIntact ==
    (Inserting /\ last.k = ValueThrows) =>
        /\ last.outcome = "throw"
        /\ vec = last.pvec
        /\ heap = last.pheap
        /\ last.nctor = 0
        /\ last.nassign = 0
        /\ last.ndtor = 0
        /\ last.lost = 0
        /\ last.orphans = 0
        /\ last.ub = {}

\* C11 witness: the value of an in-place insert at the head of a two-element
\* array, with room to spare, failed to build.
ValueFailureShiftWitness ==
    /\ Threw("Emplace")
    /\ last.k = ValueThrows
    /\ last.branch = "shift"
    /\ last.p = 0
    /\ PreSize("a") = 2
    /\ PreCapacity("a") = 4

\* ------------------------------------- two arrays: capacity over time
NextCapacity ==
    \/ DefaultConstruct("b")
    \/ MoveConstruct("b", "a")
    \/ Destruct("b")
    \/ \E v \in VecNames, w \in VecNames : Swap(v, w)
    \/ \E v \in VecNames, w \in VecNames : MoveAssign(v, w)
    \/ \E v \in VecNames, c \in Positions : Reserve(v, c, 0)
    \/ \E v \in VecNames : PushBack(v, ValueInit, 0)
    \/ \E v \in VecNames : PopBack(v)

SpecCapacity == InitWith(MaxPairCap, {"move"}) /\ [][NextCapacity]_vars

\* the last operation assigned to v
AssignedTo(v) == last.op \in {"CopyAssign", "MoveAssign"} /\ last.v = v

\* the last operation took v's storage away: a Swap with v on either side, or
\* a move construction or move assignment from v
TransferredFrom(v) ==
    \/ last.op = "Swap" /\ v \in {last.v, last.w}
    \/ last.op \in {"MoveConstruct", "MoveAssign"} /\ last.w = v

\* C12 as stated: across any operation on an array other than copy-assignment
\* or move-assignment to it, Capacity() does not decrease from one state to
\* the next.
CapacityNeverDecreases ==
    \A v \in VecNames :
        (last.pvec[v].exists /\ vec[v].exists /\ ~AssignedTo(v)) =>
            Capacity(vec, v) >= PreCapacity(v)

\* C12 as amended: across any operation other than copy-assignment or
\* move-assignment to the array, a Swap of the array with another, and a move
\* construction or move assignment that takes the array as its source,
\* Capacity() does not decrease from one state to the next.
CapacityDecreasesOnlyByTransfer ==
    \A v \in VecNames :
        (last.pvec[v].exists /\ vec[v].exists /\ ~AssignedTo(v) /\ ~TransferredFrom(v)) =>
            Capacity(vec, v) >= PreCapacity(v)

\* C12 witness: the last element of an array of capacity 2 was popped while
\* the other array holds less capacity.
CapacityKeptWitness ==
    /\ Done("PopBack")
    /\ Size(vec, last.v) = 0
    /\ PreCapacity(last.v) = 2
    /\ Capacity(vec, last.v) = 2
    /\ \E w \in VecNames : vec[w].exists /\ Capacity(vec, w) = 1

\* --------------------------------------------- growth over a history
HistEmplaceBack(x) ==
    /\ HistLength < MaxOps
    /\ vec["a"].exists
    /\ GrowthFits("a")
    /\ Commit("EmplaceBack", "a", "a", vec["a"].size_, x, 0,
              EmplaceBackOp(vec, heap, "a", x, 0))
    /\ pp' = [pp EXCEPT !.inserts = @ + 1, !.abs = Append(@, x),
                        !.reallocs = @ + Reallocated(EmplaceBackOp(vec, heap, "a", x, 0))]
    /\ Touch({})

HistEmplace(p, x) ==
    /\ HistLength < MaxOps
    /\ vec["a"].exists
    /\ p \in 0..vec["a"].size_
    /\ GrowthFits("a")
    /\ Commit("Emplace", "a", "a", p, x, 0, EmplaceOp(vec, heap, "a", p, x, 0))
    /\ pp' = [pp EXCEPT !.inserts = @ + 1,
                        !.abs = SubSeq(@, 1, p) \o <<x>> \o SubSeq(@, p + 1, Len(@)),
                        !.reallocs = @ + Reallocated(EmplaceOp(vec, heap, "a", p, x, 0))]
    /\ Touch({})

\* capacities do not depend on the values: every element is T()
NextGrowth ==
    \/ HistPushBack(ValueInit)
    \/ HistPopBack
    \/ HistEmplaceBack(ValueInit)
    \/ \E p \in Positions : HistEmplace(p, ValueInit)

SpecGrowth == InitWith(MaxHistCap, Policies) /\ [][NextGrowth]_vars

RECURSIVE PowerOfTwoFrom(_, _)
PowerOfTwoFrom(c, k) == IF c >= k THEN c ELSE PowerOfTwoFrom(2 * c, k)

\* the smallest power of two >= k
SmallestPowerOfTwo(k) == PowerOfTwoFrom(1, k)

RECURSIVE FloorLog2(_)
FloorLog2(k) == IF k <= 1 THEN 0 ELSE 1 + FloorLog2(k \div 2)

\* C13: PushBack, EmplaceBack and Emplace reallocate only when size ==
\* capacity, and then the new capacity is exactly max(1, 2 * old capacity);
\* and after k >= 1 consecutive PushBacks on an array that started empty with
\* no storage, the capacity is the smallest power of two >= k (so >= k) and at
\* most floor(log2(k)) + 2 reallocations were performed.
GrowthDoubles ==
    /\ (Inserting /\ last.outcome = "ok") =>
           LET v == last.v
               grew == vec[v].buffer_ # PreBuffer(v)
           IN  /\ grew <=> PreSize(v) = PreCapacity(v)
               /\ grew => Capacity(vec, v) =
                              (IF 2 * PreCapacity(v) > 1 THEN 2 * PreCapacity(v) ELSE 1)
               /\ ~grew => Capacity(vec, v) = PreCapacity(v)
    /\ (pp.pushes >= 1 /\ pp.pops = 0 /\ pp.inserts = 0) =>
           /\ Capacity(vec, "a") = SmallestPowerOfTwo(pp.pushes)
           /\ Capacity(vec, "a") >= pp.pushes
           /\ pp.reallocs <= FloorLog2(pp.pushes) + 2

\* C13 witness: five PushBacks in a row from the empty array: capacities 1, 2,
\* 4, 4, 8 in four reallocations.
FivePushesWitness ==
    /\ pp.pushes = 5
    /\ pp.pops = 0
    /\ pp.inserts = 0
    /\ pp.reallocs = 4
    /\ Capacity(vec, "a") = 8

\* ------------------------------------------------- one array: resizing
NextResize ==
    \/ \E n \in Positions, k \in Positions : Resize("a", n, k)
    \/ \E c \in Positions : Reserve("a", c, 0)
    \/ \E x \in Values : PushBack("a", x, 0)
    \/ PopBack("a")

SpecResize == Init /\ [][NextResize]_vars

\* C14: Resize(m) on an array of size n yields size m with the first
\* min(n, m) elements unchanged in value and order; when m < n exactly the
\* trailing n-m elements are destroyed and capacity is unchanged; when m > n
\* the slots n..m-1 hold value-initialized elements and capacity becomes
\* max(old capacity, m); and Resize(n) performs no construction, no
\* destruction and no capacity or storage change.
ResizeSetsSize ==
    Done("Resize") =>
        LET v == last.v
            n == PreSize(v)
            m == last.p
            old == PreContents(v)
            new == Contents(vec, heap, v)
        IN  /\ Size(vec, v) = m
            /\ \A i \in 1..(IF n < m THEN n ELSE m) : new[i] = old[i]
            /\ m < n =>
                   /\ last.ndtor = n - m
                   /\ last.nctor = 0
                   /\ \A i \in (m + 1)..n : SlotsOf(v)[i] = NoObject
                   /\ Capacity(vec, v) = PreCapacity(v)
                   /\ vec[v].buffer_ = PreBuffer(v)
            /\ m > n =>
                   /\ \A i \in (n + 1)..m : new[i] = ValueInit
                   /\ Capacity(vec, v) = (IF PreCapacity(v) > m THEN PreCapacity(v) ELSE m)
            /\ m = n =>
                   /\ last.nctor = 0
                   /\ last.ndtor = 0
                   /\ last.nassign = 0
                   /\ vec = last.pvec
                   /\ heap = last.pheap

\* C14 witness: a one-element array of capacity 2 holding a value other than
\* T() was resized to 3.
ResizeBeyondCapacityWitness ==
    /\ Done("Resize")
    /\ PreSize("a") = 1
    /\ PreCapacity("a") = 2
    /\ PreContents("a")[1] # ValueInit
    /\ last.p = 3
    /\ Capacity(vec, "a") = 3

\* ------------------------------------------------ two arrays: swapping
NextSwap ==
    \/ DefaultConstruct("b")
    \/ Destruct("b")
    \/ \E v \in VecNames, w \in VecNames : Swap(v, w)
    \/ \E v \in VecNames, x \in Values : PushBack(v, x, 0)
    \/ \E v \in VecNames : PopBack(v)

SpecSwap == InitWith(MaxPairCap, {"move"}) /\ [][NextSwap]_vars

\* C15: a.Swap(b) exchanges the storage blocks, capacities and live-counts of
\* a and b without allocating, releasing, constructing or destroying anything;
\* applying it twice restores both arrays; and a.Swap(a) leaves a's size,
\* capacity, storage block and contents unchanged.
SwapExchanges ==
    Done("Swap") =>
        LET v == last.v
            w == last.w
            again == SwapOp(vec, heap, v, w)
        IN  /\ vec[v] = last.pvec[w]
            /\ vec[w] = last.pvec[v]
            /\ Contents(vec, heap, v) = PreContents(w)
            /\ Contents(vec, heap, w) = PreContents(v)
            /\ heap = last.pheap
            /\ last.nctor = 0
            /\ last.ndtor = 0
            /\ last.nassign = 0
            /\ last.orphans = 0
            /\ again.vec = last.pvec
            /\ again.m.heap = last.pheap
            /\ v = w => vec = last.pvec

\* C15 witness: a two-element array was swapped with a one-element array
\* holding another value.
SwapDifferentSizesWitness ==
    /\ Done("Swap")
    /\ last.v # last.w
    /\ PreSize(last.v) = 2
    /\ PreSize(last.w) = 1
    /\ PreContents(last.v)[1] # PreContents(last.w)[1]
    /\ PreBuffer(last.v) # PreBuffer(last.w)

\* a.Swap(a) on an array that holds elements
SelfSwapReached ==
    /\ Done("Swap")
    /\ last.v = last.w
    /\ PreSize(last.v) = 2

\* ------------------------------------------------------ self-assignment
\* C16: assigning an array to itself, by copy-assignment (v = v) or by
\* move-assignment (v = std::move(v)), leaves its size, capacity, storage block
\* and contents unchanged and destroys or leaks no element.
SelfAssignIsNoOp ==
    ((Done("CopyAssign") \/ Done("MoveAssign")) /\ last.v = last.w) =>
        /\ vec = last.pvec
        /\ heap = last.pheap
        /\ Contents(vec, heap, last.v) = PreContents(last.v)
        /\ last.ndtor = 0
        /\ last.orphans = 0


\* --------------------------------------- two arrays: a copy that fails
NextCopyFail ==
    \/ DefaultConstruct("b")
    \/ \E k \in Positions : CopyConstruct("b", "a", k)
    \/ Destruct("b")
    \/ \E v \in VecNames, w \in VecNames, k \in Positions : CopyAssign(v, w, k)
    \/ \E v \in VecNames, x \in Values : PushBack(v, x, 0)
    \/ \E v \in VecNames : PopBack(v)

SpecCopyFail == InitWith(MaxPairCap, {"move"}) /\ [][NextCopyFail]_vars

\* C17: if an element copy fails on the K-th element during copy-construction,
\* or during copy-assignment when other.Size() exceeds this's capacity, the
\* K-1 elements already constructed in the new block are destroyed and the new
\* block is released, and in the copy-assignment case this keeps its size,
\* capacity, storage block and contents; in the copy-assignment branch where
\* other is longer and fits, a failure while copy-constructing the additional
\* elements leaves the live-count at its old value.
CopyFailureUnwinds ==
    /\ Threw("CopyConstruct") =>
           /\ vec = last.pvec
           /\ heap = last.pheap
           /\ last.nctor = last.k - 1
           /\ last.ndtor = last.k - 1
           /\ last.lost = 0
    /\ (Threw("CopyAssign") /\ PreSize(last.w) > PreCapacity(last.v)) =>
           /\ vec = last.pvec
           /\ heap = last.pheap
           /\ Contents(vec, heap, last.v) = PreContents(last.v)
           /\ last.nctor = last.k - 1
           /\ last.ndtor = last.k - 1
           /\ last.lost = 0
    /\ (Threw("CopyAssign") /\ PreSize(last.w) <= PreCapacity(last.v)) =>
           /\ PreSize(last.w) >= PreSize(last.v)
           /\ Size(vec, last.v) = PreSize(last.v)

\* C17 witness: copy-assigning two elements onto an array of capacity 1
\* failed on the second copy.
CopyAssignFailureWitness ==
    /\ Threw("CopyAssign")
    /\ PreCapacity(last.v) = 1
    /\ PreSize(last.v) = 1
    /\ PreSize(last.w) = 2
    /\ last.k = 2

\* a failed copy construction and a failed in-place copy assignment
CopyConstructFailureReached == Threw("CopyConstruct") /\ last.k = 2

CopyAssignInPlaceFailureReached ==
    /\ Threw("CopyAssign")
    /\ PreSize(last.w) <= PreCapacity(last.v)
    /\ last.nassign = 1


\* ------------------------- an array under every operation, beside another
\* a's elements get their values from PushBack; what the other operations add,
\* and what b holds, is T()
NextFrame ==
    \/ DefaultConstruct("b")
    \/ PushBack("b", ValueInit, 0)
    \/ \E c \in Positions : Reserve("a", c, 0)
    \/ \E n \in Positions : Resize("a", n, 0)
    \/ \E x \in Values : PushBack("a", x, 0)
    \/ EmplaceBack("a", ValueInit, 0)
    \/ \E p \in Positions : Emplace("a", p, ValueInit, 0)
    \/ PopBack("a")
    \/ \E p \in Positions, bad \in BOOLEAN : Erase("a", p, bad)
    \/ CopyAssign("a", "b", 0)
    \/ MoveAssign("a", "b")

SpecFrame == InitWith(MaxPairCap, {"move"}) /\ [][NextFrame]_vars

\* v is in the block it was in, with the capacity it had, and its first j
\* slots hold what they held
SameBlock(v, j) ==
    /\ vec[v].buffer_ = PreBuffer(v)
    /\ Capacity(vec, v) = PreCapacity(v)
    /\ \A i \in 1..j : SlotsOf(v)[i] = last.pheap[PreBuffer(v)].slots[i]

\* the last operation is one that may give v another block
MayReplaceBlock(v) ==
    \/ last.op = "Reserve" /\ last.v = v /\ last.p > PreCapacity(v)
    \/ Inserting /\ last.v = v /\ PreSize(v) = PreCapacity(v)
    \/ last.op = "Resize" /\ last.v = v /\ last.p > PreCapacity(v)
    \/ last.op = "CopyAssign" /\ last.v = v /\ PreSize(last.w) > PreCapacity(v)
    \/ last.op \in {"MoveAssign", "Swap"} /\ v \in {last.v, last.w}

\* C18: the storage block held by an array is left unchanged (same block, same
\* capacity, the elements before those the operation names in the same slots)
\* by Reserve(c) with c <= capacity, by PushBack/EmplaceBack/Emplace/Insert
\* when size < capacity, by PopBack, by Erase, by Resize(m) with m <= capacity
\* and by copy-assignment when other.Size() <= capacity; an array comes to
\* hold another block only by Reserve(c > capacity), the size == capacity
\* growth paths, Resize beyond capacity, copy-assignment with growth,
\* move-assignment and Swap.
BlockKeptUnlessReplaced ==
    /\ (Done("Reserve") /\ last.p <= PreCapacity(last.v)) =>
           SameBlock(last.v, PreSize(last.v))
    /\ (Inserting /\ last.outcome = "ok" /\ PreSize(last.v) < PreCapacity(last.v)) =>
           SameBlock(last.v, last.p)
    /\ Done("PopBack") => SameBlock(last.v, PreSize(last.v) - 1)
    /\ Done("Erase") => SameBlock(last.v, last.p)
    /\ (Done("Resize") /\ last.p <= PreCapacity(last.v)) =>
           SameBlock(last.v, IF last.p < PreSize(last.v) THEN last.p ELSE PreSize(last.v))
    /\ (Done("CopyAssign") /\ PreSize(last.w) <= PreCapacity(last.v)) =>
           SameBlock(last.v, 0)
    /\ \A v \in VecNames :
           (/\ last.pvec[v].exists
            /\ vec[v].exists
            /\ vec[v].buffer_ # PreBuffer(v)
            /\ vec[v].buffer_ # nullptr) => MayReplaceBlock(v)

\* C18 witness: the second element of a two-element array was erased beside
\* a non-empty other array: the block, the capacity and the first element stayed.
EraseKeepsBlockWitness ==
    /\ Done("Erase")
    /\ PreSize("a") = 2
    /\ last.p = 1
    /\ SlotsOf("a")[1] = 1
    /\ vec["b"].exists
    /\ Size(vec, "b") > 0


\* ------------------------------------------- two arrays: who holds a block
\* ownership does not depend on the values: every element is T()
NextOwn ==
    \/ DefaultConstruct("b")
    \/ \E n \in Positions : ConstructSize("b", n)
    \/ \E k \in Positions : CopyConstruct("b", "a", k)
    \/ MoveConstruct("b", "a")
    \/ Destruct("b")
    \/ \E v \in VecNames, w \in VecNames : CopyAssign(v, w, 0)
    \/ \E v \in VecNames, w \in VecNames : MoveAssign(v, w)
    \/ \E v \in VecNames, w \in VecNames : Swap(v, w)
    \/ \E v \in VecNames, c \in Positions : Reserve(v, c, 0)
    \/ \E v \in VecNames : PushBack(v, ValueInit, 0)
    \/ \E v \in VecNames : PopBack(v)

SpecOwn == InitWith(MaxPairCap, {"move"}) /\ [][NextOwn]_vars

\* C19: in every reachable state each allocated storage block is held by at
\* most one RawMemory, a RawMemory has a null base address exactly when its
\* capacity is 0 (and a non-null one is an allocated block of capacity slots),
\* and no block has been deallocated twice.
UniqueOwnership ==
    /\ \A v \in VecNames :
           vec[v].exists =>
               /\ vec[v].buffer_ = nullptr <=> vec[v].capacity_ = 0
               /\ vec[v].buffer_ # nullptr =>
                      /\ heap[vec[v].buffer_].alloc
                      /\ Len(heap[vec[v].buffer_].slots) = vec[v].capacity_
    /\ \A v \in VecNames, w \in VecNames :
           (v # w /\ vec[v].exists /\ vec[w].exists /\ vec[v].buffer_ # nullptr) =>
               vec[v].buffer_ # vec[w].buffer_
    /\ "double_free" \notin last.ub

\* C19 witness: b, holding the block at address 1 with capacity 2, was
\* destroyed and that block released while a holds a block of its own.
DestroyAfterTransferWitness ==
    /\ Done("Destruct")
    /\ last.v = "b"
    /\ PreBuffer("b") = 1
    /\ PreCapacity("b") = 2
    /\ ~heap[1].alloc
    /\ vec["a"].buffer_ # nullptr
    /\ Capacity(vec, "a") = 1


\* ------------------------------------------------------ object lifetimes
\* C20: in every operation each destructor call and each assignment targets a
\* slot that holds a constructed object and each in-place construction a slot
\* that holds none; so over a failure-free sequence of operations ending with
\* the array's destruction every constructed element is destroyed exactly
\* once: no block is released with objects still alive in it.
LifetimesRespected ==
    last.outcome = "ok" =>
        /\ last.ub = {}
        /\ last.lost = 0
        /\ leak.objects = 0

====
